---- MODULE Spec2Model ----
(***************************************************************************)
(* A model of src/main.py: the number normalizer (clean_number), the two   *)
(* plain-text statement grammars and their selection, the table row        *)
(* collector and column-role inference of extract_bank_statement, the      *)
(* planilla extractor, the invoice party extractor, and the upload         *)
(* endpoints that turn an extraction result into a response.               *)
(*                                                                         *)
(* Python strings are sequences of one-character strings, so that rfind,   *)
(* count, replace, strip, slicing and substring tests are computed as the  *)
(* code computes them.  A Python float is the exact decimal m / 10^e (the  *)
(* inputs have far fewer than 15 significant digits, where float() and     *)
(* repr() are exact on decimals).                                          *)
(***************************************************************************)
EXTENDS Integers, Sequences, FiniteSets, TLC

VARIABLES
    \* clean_number called on its own, then on its re-stringified result
    value, cn_result, cn_first, cn_pc,
    \* _parse_text_transactions called on its own: its argument, the list
    \* `candidates` as it is built, the value returned
    full_text, candidates, tx_result, tx_pc,
    \* a request to one of the upload endpoints: the endpoint, where the
    \* handler is, what the extractor returned, the response
    endpoint, pc, result, response,
    \* extract_bank_statement: the pages opened and the tables seen so far,
    \* the page text and the table at hand, and its three accumulators
    n_pages, n_tables, text, table, all_text_parts, all_table_rows, headers,
    \* extract_planilla_pila and extract_data_from_pdf: the decoded document,
    \* the planilla's list `rows`, the invoice's two parties and its items
    pdf, employee_rows, vendedor, comprador, items

numVars == <<value, cn_result, cn_first, cn_pc>>
textVars == <<full_text, candidates, tx_result, tx_pc>>
reqVars == <<endpoint, pc, result, response>>
bankVars == <<n_pages, n_tables, text, table, all_text_parts, all_table_rows, headers>>
docVars == <<pdf, employee_rows>>
invoiceVars == <<vendedor, comprador, items>>
vars == <<value, cn_result, cn_first, cn_pc, full_text, candidates, tx_result, tx_pc,
          endpoint, pc, result, response,
          n_pages, n_tables, text, table, all_text_parts, all_table_rows, headers,
          pdf, employee_rows, vendedor, comprador, items>>

----------------------------------------------------------------------------
(* Bounds of the model                                                     *)

\* longest digit/separator core of an enumerated clean_number argument
MaxNumLen == 5
\* most lines of an enumerated text handed to _parse_text_transactions
MaxLines == 3
\* most pages of a bank statement, and most tables over all its pages
MaxPages == 2
MaxTables == 2
\* most tables of a planilla, and most pages of an invoice
MaxPlanillaTables == 3
MaxInvoicePages == 2

----------------------------------------------------------------------------
(* Python string primitives                                                *)

\* None as a number-valued result, and None where a string is expected (a
\* cell, an argument): a sequence, so that it compares with strings
None == [kind |-> "none"]
Absent == <<"None">>

DIGITS == {"0", "1", "2", "3", "4", "5", "6", "7", "8", "9"}
WHITESPACE == {" ", "\t", "\n"}

DigitVal(c) ==
    CASE c = "0" -> 0 [] c = "1" -> 1 [] c = "2" -> 2 [] c = "3" -> 3
      [] c = "4" -> 4 [] c = "5" -> 5 [] c = "6" -> 6 [] c = "7" -> 7
      [] c = "8" -> 8 [] c = "9" -> 9

DigitChar(n) ==
    CASE n = 0 -> "0" [] n = 1 -> "1" [] n = 2 -> "2" [] n = 3 -> "3"
      [] n = 4 -> "4" [] n = 5 -> "5" [] n = 6 -> "6" [] n = 7 -> "7"
      [] n = 8 -> "8" [] n = 9 -> "9"

\* s[a:] and s[:b] with Python's 0-based indices
SliceFrom(s, a) == SubSeq(s, a + 1, Len(s))
SliceTo(s, b) == SubSeq(s, 1, b)

RECURSIVE ReplaceChar(_, _, _)
\* s.replace(c, r) for a one-character c
ReplaceChar(s, c, r) ==
    IF s = <<>> THEN <<>>
    ELSE (IF Head(s) = c THEN r ELSE <<Head(s)>>) \o ReplaceChar(Tail(s), c, r)

RECURSIVE LStrip(_)
LStrip(s) ==
    IF s # <<>> /\ Head(s) \in WHITESPACE THEN LStrip(Tail(s)) ELSE s

RECURSIVE RStrip(_)
RStrip(s) ==
    IF s # <<>> /\ s[Len(s)] \in WHITESPACE THEN RStrip(SliceTo(s, Len(s) - 1)) ELSE s

\* s.strip()
Strip(s) == RStrip(LStrip(s))

\* s.rfind(c): the 0-based index of the last c, -1 when there is none
RFind(s, c) ==
    LET hits == {i \in 1..Len(s) : s[i] = c}
    IN  IF hits = {} THEN -1
        ELSE (CHOOSE i \in hits : \A j \in hits : j <= i) - 1

\* s.count(c)
CountChar(s, c) == Cardinality({i \in 1..Len(s) : s[i] = c})

\* s.isdigit() on ASCII text
IsDigit(s) == s # <<>> /\ \A i \in 1..Len(s) : s[i] \in DIGITS

\* sub in s
Contains(s, sub) ==
    \E i \in 0..(Len(s) - Len(sub)) : SubSeq(s, i + 1, i + Len(sub)) = sub

\* s.startswith(p)
StartsWith(s, p) == Len(p) <= Len(s) /\ SliceTo(s, Len(p)) = p

----------------------------------------------------------------------------
(* Python numbers: int(v) and float(m / 10^e), and float() / str() on them *)

RECURSIVE Pow10(_)
Pow10(n) == IF n = 0 THEN 1 ELSE 10 * Pow10(n - 1)

RECURSIVE DigitsVal(_)
DigitsVal(ds) ==
    IF ds = <<>> THEN 0
    ELSE 10 * DigitsVal(SliceTo(ds, Len(ds) - 1)) + DigitVal(ds[Len(ds)])

RECURSIVE NatStr(_)
NatStr(n) == IF n < 10 THEN <<DigitChar(n)>> ELSE NatStr(n \div 10) \o <<DigitChar(n % 10)>>

Abs(n) == IF n < 0 THEN -n ELSE n

RECURSIVE Norm(_, _)
\* m / 10^e with the fewest decimals
Norm(m, e) == IF e > 0 /\ m % 10 = 0 THEN Norm(m \div 10, e - 1) ELSE [m |-> m, e |-> e]

\* the longest prefix of digits of s, as a length
DigitRun(s) ==
    IF \A i \in 1..Len(s) : s[i] \in DIGITS THEN Len(s)
    ELSE (CHOOSE i \in 1..Len(s) : s[i] \notin DIGITS /\ \A j \in 1..(i - 1) : s[j] \in DIGITS) - 1

\* float(s): [ok, m, e] with value m / 10^e.  The grammar is an optional
\* sign, digits with at most one point and at least one digit, and an
\* optional exponent; it is read left to right, each operator handing what
\* it has read to the next.

\* the digits read, scaled by the exponent
FloatValue(neg, mag, sh) ==
    IF sh >= 0
    THEN [ok |-> TRUE, m |-> IF neg THEN -Norm(mag, sh).m ELSE Norm(mag, sh).m, e |-> Norm(mag, sh).e]
    ELSE [ok |-> TRUE, m |-> IF neg THEN -(mag * Pow10(-sh)) ELSE mag * Pow10(-sh), e |-> 0]

\* the exponent's digits ed, negative when eneg
FloatExpDigits(neg, digits, nf, eneg, ed) ==
    IF ~IsDigit(ed) THEN [ok |-> FALSE, m |-> 0, e |-> 0]
    ELSE FloatValue(neg, DigitsVal(digits), IF eneg THEN nf + DigitsVal(ed) ELSE nf - DigitsVal(ed))

\* what follows the e, with its sign
FloatExpSign(neg, digits, nf, r4) ==
    FloatExpDigits(neg, digits, nf, r4 # <<>> /\ r4[1] = "-",
                   IF r4 # <<>> /\ r4[1] \in {"-", "+"} THEN Tail(r4) ELSE r4)

\* what follows the digits: nothing, or an exponent
FloatExponent(neg, digits, nf, r3) ==
    IF digits = <<>> THEN [ok |-> FALSE, m |-> 0, e |-> 0]
    ELSE IF r3 = <<>> THEN FloatValue(neg, DigitsVal(digits), nf)
    ELSE IF r3[1] \in {"e", "E"} THEN FloatExpSign(neg, digits, nf, Tail(r3))
    ELSE [ok |-> FALSE, m |-> 0, e |-> 0]

\* the fraction's digits are the first nf characters of r2
FloatFraction(neg, ip, r2, nf) ==
    FloatExponent(neg, ip \o SliceTo(r2, nf), nf, SliceFrom(r2, nf))

\* what follows the integer digits: a point and the fraction, or not
FloatPoint(neg, ip, r1) ==
    IF r1 # <<>> /\ r1[1] = "." THEN FloatFraction(neg, ip, Tail(r1), DigitRun(Tail(r1)))
    ELSE FloatFraction(neg, ip, r1, 0)

FloatInteger(neg, body) ==
    FloatPoint(neg, SliceTo(body, DigitRun(body)), SliceFrom(body, DigitRun(body)))

FloatSign(s) ==
    FloatInteger(s # <<>> /\ s[1] = "-", IF s # <<>> /\ s[1] \in {"-", "+"} THEN Tail(s) ELSE s)

PyFloat(str) == FloatSign(Strip(str))

PyInt(v) == [kind |-> "int", v |-> v]
PyFloatVal(m, e) == [kind |-> "float", m |-> m, e |-> e]
Raw(v) == [kind |-> "raw", v |-> v]

\* isinstance(x, (int, float))
IsNumber(x) == x.kind \in {"int", "float"}
\* x > 0, x < 0 and abs(x) on a number
IsPositive(x) == IF x.kind = "int" THEN x.v > 0 ELSE x.m > 0
IsNegative(x) == IF x.kind = "int" THEN x.v < 0 ELSE x.m < 0
PyAbs(x) == IF x.kind = "int" THEN PyInt(Abs(x.v)) ELSE PyFloatVal(Abs(x.m), x.e)
PyNeg(x) == IF x.kind = "int" THEN PyInt(-x.v) ELSE PyFloatVal(-x.m, x.e)

RECURSIVE Zeros(_)
Zeros(n) == IF n <= 0 THEN <<>> ELSE <<"0">> \o Zeros(n - 1)

\* str(x) of an int or of a float: repr switches to exponent notation when
\* the first significant digit is past the fourth decimal
PyStr(x) ==
    IF x.kind = "int"
    THEN (IF x.v < 0 THEN <<"-">> ELSE <<>>) \o NatStr(Abs(x.v))
    ELSE LET d     == NatStr(Abs(x.m))
             decpt == Len(d) - x.e
             sign  == IF x.m < 0 THEN <<"-">> ELSE <<>>
             ex    == 1 - decpt
         IN  IF decpt < -3
             THEN sign \o <<d[1]>> \o (IF Len(d) > 1 THEN <<".">> \o Tail(d) ELSE <<>>)
                       \o <<"e", "-">> \o (IF ex < 10 THEN <<"0">> ELSE <<>>) \o NatStr(ex)
             ELSE IF decpt <= 0
             THEN sign \o <<"0", ".">> \o Zeros(-decpt) \o d
             ELSE sign \o SliceTo(d, decpt) \o <<".">> \o SliceFrom(d, decpt)

----------------------------------------------------------------------------
(* clean_number                                                            *)

\* NumberOrPass truncating to int whatever the fractional part
NumberOrPassTruncating(f, orig) ==
    IF ~f.ok THEN Raw(orig) ELSE PyInt(f.m \div Pow10(f.e))

\* lines 55-59, given f = float(s): an int when the value has no fractional
\* part; a parse failure hands back the argument
NumberOrPass(f, orig) ==
    IF ~f.ok THEN Raw(orig)
    ELSE IF f.e = 0 THEN PyInt(f.m) ELSE PyFloatVal(f.m, f.e)

\* Disambiguate with the comma's three-digit rule applied to a single dot too
DisambiguateDotGroups(s) ==
    LET last_dot   == RFind(s, ".")
        last_comma == RFind(s, ",")
        after      == SliceFrom(s, last_comma + 1)
        afterDot   == SliceFrom(s, last_dot + 1)
    IN  IF last_dot > last_comma
        THEN IF CountChar(s, ".") > 1 \/ (Len(afterDot) = 3 /\ IsDigit(afterDot))
             THEN ReplaceChar(ReplaceChar(s, ".", <<>>), ",", <<>>)
             ELSE ReplaceChar(s, ",", <<>>)
        ELSE IF last_comma > last_dot
        THEN IF Len(after) = 2 /\ IsDigit(after)
             THEN ReplaceChar(ReplaceChar(s, ".", <<>>), ",", <<".">>)
             ELSE ReplaceChar(s, ",", <<>>)
        ELSE s

\* lines 31-53: the last separator decides
Disambiguate(s) ==
    LET last_dot   == RFind(s, ".")
        last_comma == RFind(s, ",")
        after      == SliceFrom(s, last_comma + 1)
    IN  IF last_dot > last_comma
        THEN IF CountChar(s, ".") > 1
             THEN ReplaceChar(ReplaceChar(s, ".", <<>>), ",", <<>>)
             ELSE ReplaceChar(s, ",", <<>>)
        ELSE IF last_comma > last_dot
        THEN IF Len(after) = 2 /\ IsDigit(after)
             THEN ReplaceChar(ReplaceChar(s, ".", <<>>), ",", <<".">>)
             ELSE ReplaceChar(s, ",", <<>>)
        ELSE s

\* lines 27-59, given s = str(value).replace('$', '').strip()
CleanMarked(s, v) ==
    IF s = <<>> \/ s = <<"-">> THEN None
    ELSE NumberOrPass(PyFloat(Disambiguate(s)), v)

\* clean_number(value): value is None or a string
clean_number(v) ==
    IF v = Absent THEN None
    ELSE CleanMarked(Strip(ReplaceChar(v, "$", <<>>)), v)

----------------------------------------------------------------------------
(* Arguments of clean_number                                               *)

NumCoreAlphabet == {"0", "1", ".", ","}

RECURSIVE SeqsUpTo(_, _)
\* every sequence over S of length at most n
SeqsUpTo(S, n) ==
    IF n = 0 THEN {<<>>}
    ELSE LET shorter == SeqsUpTo(S, n - 1)
         IN  shorter \cup {Append(s, c) : s \in {t \in shorter : Len(t) = n - 1}, c \in S}

NumPrefixes == {<<>>, <<"$">>, <<"$", " ">>, <<"-">>, <<" ">>}
NumSuffixes == {<<>>, <<" ">>}

NumExamples ==
    { <<"$", " ", "1", ".", "2", "3", "4", ".", "5", "6", "7", ",", "8", "9">>,
      <<"1", ",", "2", "3", "4", ",", "5", "6", "7", ".", "8", "9">>,
      <<".", "8", "6">>,
      <<"1", ",", "0", "0">>,
      <<"1", "9", ".", "0", "0">>,
      <<"1", ".", "2", "2", "5", ".", "0", "0", "0">>,
      <<"2", "1", "2", ",", "7", "0", "0">>,
      <<"-", "2", "4", ",", "3", "0", "0", ".", "5", "0">>,
      <<"T", "o", "t", "a", "l">> }

NumInputs ==
    {p \o c \o q : p \in NumPrefixes, c \in SeqsUpTo(NumCoreAlphabet, MaxNumLen), q \in NumSuffixes}
        \cup NumExamples \cup {Absent}

----------------------------------------------------------------------------
(* The line grammars.  The patterns are anchored, separate their groups by *)
(* \s+ and are matched on line.strip(), so a match is decided by the       *)
(* whitespace-separated tokens of the line; the lines of the model         *)
(* separate their tokens by single spaces, so the lazily matched           *)
(* description is the tokens between, joined by one space.                 *)

UPPER == <<"A", "B", "C", "D", "E", "F", "G", "H", "I", "J", "K", "L", "M", "N", "O", "P", "Q",
           "R", "S", "T", "U", "V", "W", "X", "Y", "Z", "Á", "É", "Í", "Ó", "Ú", "Ñ">>
LOWER == <<"a", "b", "c", "d", "e", "f", "g", "h", "i", "j", "k", "l", "m", "n", "o", "p", "q",
           "r", "s", "t", "u", "v", "w", "x", "y", "z", "á", "é", "í", "ó", "ú", "ñ">>

\* c.lower()
LowerChar(c) ==
    IF \E i \in 1..Len(UPPER) : UPPER[i] = c
    THEN LOWER[CHOOSE i \in 1..Len(UPPER) : UPPER[i] = c]
    ELSE c

\* s.lower()
Lower(s) == [i \in 1..Len(s) |-> LowerChar(s[i])]

\* the length of the longest prefix of s without whitespace
WordRun(s) ==
    IF \A i \in 1..Len(s) : s[i] \notin WHITESPACE THEN Len(s)
    ELSE (CHOOSE i \in 1..Len(s) :
              s[i] \in WHITESPACE /\ \A j \in 1..(i - 1) : s[j] \notin WHITESPACE) - 1

RECURSIVE Tokens(_)
\* the whitespace-separated tokens of s
Tokens(s) ==
    LET t == LStrip(s)
    IN  IF t = <<>> THEN <<>>
        ELSE <<SliceTo(t, WordRun(t))>> \o Tokens(SliceFrom(t, WordRun(t)))

RECURSIVE JoinWith(_, _)
\* sep.join(parts)
JoinWith(sep, parts) ==
    IF parts = <<>> THEN <<>>
    ELSE IF Len(parts) = 1 THEN parts[1]
    ELSE parts[1] \o sep \o JoinWith(sep, Tail(parts))

\* [\d,]* and [\d,]+
IsDigitsCommas(s) == \A i \in 1..Len(s) : s[i] \in DIGITS \cup {","}

\* \d{1,2}/\d{2}
IsFechaA(tok) ==
    /\ Len(tok) \in {4, 5}
    /\ tok[Len(tok) - 2] = "/"
    /\ IsDigit(SliceTo(tok, Len(tok) - 3))
    /\ IsDigit(SliceFrom(tok, Len(tok) - 2))

\* -?[\d,]*\.[\d]+
IsValorA(tok) ==
    LET b == IF tok # <<>> /\ tok[1] = "-" THEN Tail(tok) ELSE tok
        p == RFind(b, ".")
    IN  /\ p >= 0
        /\ IsDigitsCommas(SliceTo(b, p))
        /\ IsDigit(SliceFrom(b, p + 1))

\* [\d,]+\.[\d]{2}
IsValorB(tok) ==
    LET p == RFind(tok, ".")
    IN  /\ p >= 1
        /\ IsDigitsCommas(SliceTo(tok, p))
        /\ Len(tok) - (p + 1) = 2
        /\ IsDigit(SliceFrom(tok, p + 1))

\* _BANCOLOMBIA_PATTERN.match(line): [ok, groups]
BANCOLOMBIA_PATTERN(line) ==
    LET t == Tokens(line)
        n == Len(t)
    IN  IF n >= 4 /\ IsFechaA(t[1]) /\ IsValorA(t[n - 1]) /\ IsValorA(t[n])
        THEN [ok |-> TRUE, fecha |-> t[1], desc |-> JoinWith(<<" ">>, SubSeq(t, 2, n - 2)),
              valor_str |-> t[n - 1], saldo_str |-> t[n]]
        ELSE [ok |-> FALSE]

\* \$\s*([\d,]+\.[\d]{2}) ending at token k of t: [ok, amount, the token before it]
DollarAmountEndingAt(t, k) ==
    IF k >= 1 /\ t[k] # <<>> /\ t[k][1] = "$" /\ IsValorB(Tail(t[k]))
    THEN [ok |-> TRUE, amount |-> Tail(t[k]), before |-> k - 1]
    ELSE IF k >= 2 /\ IsValorB(t[k]) /\ t[k - 1] = <<"$">>
    THEN [ok |-> TRUE, amount |-> t[k], before |-> k - 2]
    ELSE [ok |-> FALSE, amount |-> <<>>, before |-> 0]

\* _DAVIVIENDA_PATTERN.match(line): [ok, groups]
DAVIVIENDA_PATTERN(line) ==
    LET t   == Tokens(line)
        cre == DollarAmountEndingAt(t, Len(t))
        deb == DollarAmountEndingAt(t, cre.before)
    IN  IF /\ cre.ok /\ deb.ok
           /\ deb.before >= 4
           /\ Len(t[1]) = 2 /\ IsDigit(t[1])
           /\ Len(t[2]) = 2 /\ IsDigit(t[2])
           /\ IsDigit(t[3])
        THEN [ok |-> TRUE, dia |-> t[1], mes |-> t[2],
              desc_raw |-> JoinWith(<<" ">>, SubSeq(t, 4, deb.before)),
              deb_str |-> deb.amount, cre_str |-> cre.amount]
        ELSE [ok |-> FALSE]

\* in a phrase of _DAVI_SKIP: the pattern's . and \d
ANY == "<.>"
DIGIT == "<\\d>"

DAVI_SKIP ==
    << <<"C", "U", "E", "N", "T", "A", " ", "D", "E", " ", "A", "H", "O", "R", "R", "O", "S">>,
       <<"D", "A", "M", "A", "S">>,
       <<"B", "a", "n", "c", "o", " ", "D", "a", "v", "i", "v", "i", "e", "n", "d", "a">>,
       <<"F", "e", "c", "h", "a">>,
       <<"D", ANY, "a", " ", "M", "e", "s">>,
       <<"O", "f", "i", "c", "i", "n", "a">>,
       <<"H", ".", DIGIT>>,
       <<"A", "p", "r", "e", "c", "i", "a", "d", "o">>,
       <<"D", "a", "v", "i", "v", "i", "e", "n", "d", "a", " ", "a", " ", "p", "a", "r", "t", "i", "r">>,
       <<"E", "s", "t", "e", " ", "p", "r", "o", "d", "u", "c", "t", "o">>,
       <<"C", "u", "a", "l", "q", "u", "i", "e", "r", " ", "d", "i", "f", "e", "r", "e", "n", "c", "i", "a">>,
       <<"R", "e", "c", "u", "e", "r", "d", "e", " ", "q", "u", "e">>,
       <<"T", "e", "l", ANY, "f", "o", "n", "o">>,
       <<"P", "a", "r", "a", " ", "m", "a", "y", "o", "r">>,
       <<"I", "N", "F", "O", "R", "M", "E">>,
       <<"S", "a", "l", "d", "o", " ", "A", "n", "t", "e", "r", "i", "o", "r">>,
       <<"M", ANY, "s", " ", "C", "r", ANY, "d", "i", "t", "o", "s">>,
       <<"M", "e", "n", "o", "s", " ", "D", ANY, "b", "i", "t", "o", "s">>,
       <<"N", "u", "e", "v", "o", " ", "S", "a", "l", "d", "o">>,
       <<"S", "a", "l", "d", "o", " ", "P", "r", "o", "m", "e", "d", "i", "o">> >>

\* a phrase matched, ignoring case, at the start of s
PhraseMatch(phrase, s) ==
    /\ Len(phrase) <= Len(s)
    /\ \A i \in 1..Len(phrase) :
          \/ phrase[i] = ANY
          \/ phrase[i] = DIGIT /\ s[i] \in DIGITS
          \/ phrase[i] \notin {ANY, DIGIT} /\ LowerChar(phrase[i]) = LowerChar(s[i])

\* _DAVI_SKIP.match(s)
DaviSkipMatch(s) == \E k \in 1..Len(DAVI_SKIP) : PhraseMatch(DAVI_SKIP[k], s)

DataFrame(source, rows) == [kind |-> "df", source |-> source, rows |-> rows]
\* pd.DataFrame(rows) if rows else None
FrameOrNone(source, rows) == IF rows = <<>> THEN None ELSE DataFrame(source, rows)
\* df is not None and not df.empty
HasRows(df) == df # None /\ df.rows # <<>>

\* lines 172-181: the record of a matched Bancolombia line
BancolombiaRow(m) ==
    LET valor == clean_number(m.valor_str)
        saldo == clean_number(m.saldo_str)
    IN  [Fecha |-> m.fecha,
         Descripcion |-> Strip(m.desc),
         Entradas |-> IF IsNumber(valor) /\ IsPositive(valor) THEN valor ELSE None,
         Salidas |-> IF IsNumber(valor) /\ IsNegative(valor) THEN PyAbs(valor) ELSE None,
         Saldo |-> saldo]

RECURSIVE BancolombiaRows(_, _)
\* lines 168-181: the loop over the lines, from line i on
BancolombiaRows(lines, i) ==
    IF i > Len(lines) THEN <<>>
    ELSE LET m == BANCOLOMBIA_PATTERN(Strip(lines[i]))
         IN  (IF m.ok THEN <<BancolombiaRow(m)>> ELSE <<>>) \o BancolombiaRows(lines, i + 1)

\* _parse_bancolombia_text(full_text), full_text given as full_text.split('\n')
parse_bancolombia_text(lines) == FrameOrNone("bancolombia", BancolombiaRows(lines, 1))

\* DaviDescription without the header/footer test
DaviDescriptionNoSkip(lines, i, m) ==
    LET desc == Strip(m.desc_raw)
        nxt  == IF i + 1 <= Len(lines) THEN Strip(lines[i + 1]) ELSE <<>>
    IN  IF i + 1 <= Len(lines) /\ nxt # <<>> /\ ~DAVIVIENDA_PATTERN(nxt).ok
        THEN desc \o <<" ">> \o nxt
        ELSE desc

\* lines 198-204: the description, with the next line appended when it is a
\* continuation
DaviDescription(lines, i, m) ==
    LET desc == Strip(m.desc_raw)
        nxt  == IF i + 1 <= Len(lines) THEN Strip(lines[i + 1]) ELSE <<>>
    IN  IF /\ i + 1 <= Len(lines)
           /\ nxt # <<>>
           /\ ~DAVIVIENDA_PATTERN(nxt).ok
           /\ ~DaviSkipMatch(nxt)
        THEN desc \o <<" ">> \o nxt
        ELSE desc

\* lines 206-214: the record of a matched Davivienda line
DaviviendaRow(lines, i, m) ==
    LET debito  == clean_number(m.deb_str)
        credito == clean_number(m.cre_str)
    IN  [Fecha |-> m.dia \o <<"/">> \o m.mes,
         Descripcion |-> DaviDescription(lines, i, m),
         Entradas |-> IF IsNumber(credito) /\ IsPositive(credito) THEN credito ELSE None,
         Salidas |-> IF IsNumber(debito) /\ IsPositive(debito) THEN debito ELSE None]

RECURSIVE DaviviendaRows(_, _)
\* lines 190-214: the loop over the lines, from line i on
DaviviendaRows(lines, i) ==
    IF i > Len(lines) THEN <<>>
    ELSE LET m == DAVIVIENDA_PATTERN(Strip(lines[i]))
         IN  (IF m.ok THEN <<DaviviendaRow(lines, i, m)>> ELSE <<>>)
                 \o DaviviendaRows(lines, i + 1)

\* _parse_davivienda_text(full_text)
parse_davivienda_text(lines) == FrameOrNone("davivienda", DaviviendaRows(lines, 1))

\* max(candidates, key=len): the first candidate of the greatest length
MaxByLen(cands) ==
    cands[CHOOSE i \in 1..Len(cands) :
              /\ \A j \in 1..Len(cands) : Len(cands[j].rows) <= Len(cands[i].rows)
              /\ \A j \in 1..(i - 1) : Len(cands[j].rows) < Len(cands[i].rows)]

\* [x for x in xs if keep(x)] for keep = "is not None and not empty"
RECURSIVE KeepWithRows(_)
KeepWithRows(cands) ==
    IF cands = <<>> THEN <<>>
    ELSE (IF HasRows(Head(cands)) THEN <<Head(cands)>> ELSE <<>>) \o KeepWithRows(Tail(cands))

\* lines 225-228: what _parse_text_transactions returns for its candidates
SelectCandidate(cands) ==
    LET kept == KeepWithRows(cands)
    IN  IF kept = <<>> THEN None ELSE MaxByLen(kept)

\* the list of parsers in the other order
TextParsersSwapped == <<"bancolombia", "davivienda">>

\* lines 221-224: the parsers in the order the list names them
TextParsers == <<"davivienda", "bancolombia">>

RunParser(name, lines) ==
    IF name = "davivienda" THEN parse_davivienda_text(lines) ELSE parse_bancolombia_text(lines)

\* _parse_text_transactions(full_text)
parse_text_transactions(lines) ==
    SelectCandidate([k \in 1..Len(TextParsers) |-> RunParser(TextParsers[k], lines)])

----------------------------------------------------------------------------
(* Texts handed to the grammars                                            *)

LineA1 ==
    <<"1", "/", "0", "4", " ", "P", "A", "G", "O", " ", "Q", "R", " ", "2", "4", ",", "3", "0", "0", ".", "0", "0", " ", "3", ",", "8", "8", "8", ",", "7", "2", "9", ".", "6", "1">>
LineA2 ==
    <<"1", "5", "/", "0", "6", " ", "R", "E", "T", "I", "R", "O", " ", "-", "5", "0", "0", ".", "0", "0", " ", "1", ",", "0", "0", "0", ".", "0", "0">>
LineA3 ==
    <<"1", "/", "0", "4", " ", "A", "B", "O", "N", "O", " ", ".", "8", "6", " ", "4", ",", "7", "5", "1", ",", "9", "1", "1", ".", "7", "7">>
LineB1 ==
    <<"0", "1", " ", "0", "1", " ", "9", "0", "7", "0", " ", "A", "b", "o", "n", "o", " ", "v", "e", "n", "t", "a", "s", " ", "$", " ", "0", ".", "0", "0", " ", "$", " ", "5", ",", "5", "3", "4", ",", "3", "3", "9", ".", "0", "0">>
LineB2 ==
    <<"0", "2", " ", "0", "1", " ", "0", "0", "3", "3", " ", "P", "a", "g", "o", " ", "E", "N", "E", "L", " ", "$", "1", ",", "4", "5", "2", ",", "4", "7", "0", ".", "0", "0", " ", "$", " ", "0", ".", "0", "0">>
LineB3 ==
    <<"0", "3", " ", "0", "1", " ", "0", "0", "3", "3", " ", "A", "j", "u", "s", "t", "e", " ", "$", " ", "1", "0", ".", "0", "0", " ", "$", " ", "2", "0", ".", "0", "0">>
LineSkip1 ==
    <<"S", "a", "l", "d", "o", " ", "A", "n", "t", "e", "r", "i", "o", "r", " ", "$", " ", "1", "0", "0", ".", "0", "0">>
LineSkip2 ==
    <<"b", "a", "n", "c", "o", " ", "d", "a", "v", "i", "v", "i", "e", "n", "d", "a", " ", "s", ".", "a", ".">>
LineOther1 ==
    <<"F", "A", "C", "T", "U", "R", "A", " ", "1", "2", "3">>
LineOther2 ==
    <<" ", "R", "E", "F", " ", "9", "9", " ">>
LineBlank ==
    <<" ">>
LineEmpty == <<>>

TextLines ==
    {LineA1, LineA2, LineA3, LineB1, LineB2, LineB3, LineSkip1, LineSkip2,
     LineOther1, LineOther2, LineBlank, LineEmpty}

\* full_text.split('\n') is never empty: '' splits to ['']
TextInputs == SeqsUpTo(TextLines, MaxLines) \ {<<>>}

----------------------------------------------------------------------------
(* extract_bank_statement: the row collector and the column roles          *)

\* `if x` on a cell: neither None nor ''
Truthy(c) == c # Absent /\ c # <<>>
\* str(c) of a cell
CellStr(c) == IF c = Absent THEN <<"N", "o", "n", "e">> ELSE c

TX_HEADER_KEYWORDS ==
    << <<"f", "e", "c", "h", "a">>,
       <<"d", "e", "s", "c", "r", "i", "p", "c", "i">>,
       <<"m", "o", "v", "i", "m", "i", "e", "n", "t", "o">>,
       <<"c", "o", "n", "c", "e", "p", "t", "o">>,
       <<"d", "e", "t", "a", "l", "l", "e">>,
       <<"t", "r", "a", "n", "s", "a", "c", "c", "i">> >>

DEBIT_KEYWORDS ==
    << <<"d", "é", "b", "i", "t">>,
       <<"d", "e", "b", "i", "t", "o">>,
       <<"c", "a", "r", "g", "o">>,
       <<"s", "a", "l", "i", "d", "a">>,
       <<"e", "g", "r", "e", "s", "o">>,
       <<"r", "e", "t", "i", "r", "o">> >>

CREDIT_KEYWORDS ==
    << <<"c", "r", "é", "d", "i", "t">>,
       <<"c", "r", "e", "d", "i", "t", "o">>,
       <<"a", "b", "o", "n", "o">>,
       <<"e", "n", "t", "r", "a", "d", "a">>,
       <<"i", "n", "g", "r", "e", "s", "o">>,
       <<"d", "e", "p", "ó", "s", "i", "t", "o">>,
       <<"d", "e", "p", "o", "s", "i", "t", "o">> >>

\* line 335: the fewest collected rows the table path is used for
MIN_TABLE_ROWS == 5

\* any(kw in s for kw in kws)
ContainsAny(s, kws) == \E k \in 1..Len(kws) : Contains(s, kws[k])

\* _is_transaction_table(header_row)
is_transaction_table(header_row) ==
    LET combined == JoinWith(<<" ">>,
                        [i \in 1..Len(header_row) |->
                            Lower(IF Truthy(header_row[i]) THEN CellStr(header_row[i]) ELSE <<>>)])
    IN  ContainsAny(combined, TX_HEADER_KEYWORDS)

\* lines 313-316: the header row with its cells trimmed and its holes named
Candidate(header_row) ==
    [i \in 1..Len(header_row) |->
        IF Truthy(header_row[i]) THEN Strip(CellStr(header_row[i]))
        ELSE <<"C", "o", "l">> \o NatStr(i - 1)]

\* line 308: max((len(row) for row in table if row), default=0)
MaxCols(tb) ==
    LET lens == {Len(tb[i]) : i \in 1..Len(tb)}
    IN  IF lens = {} THEN 0 ELSE CHOOSE n \in lens : \A m \in lens : m <= n

\* any(c for c in row if c)
AnyCell(row) == \E i \in 1..Len(row) : Truthy(row[i])

\* headers is None
NoHeaders == <<Absent>>

RECURSIVE SelectRows(_, _, _)
\* the rows of tb, from row i on, that the collector appends under header h;
\* skipRepeats is the test of lines 328-330, made in the else branch only
SelectRows(tb, h, skipRepeats) ==
    IF tb = <<>> THEN <<>>
    ELSE LET row == Head(tb)
             ok  == /\ Len(row) = Len(h)
                    /\ ~(skipRepeats /\ Strip(CellStr(row[1])) = Strip(CellStr(h[1])))
                    /\ AnyCell(row)
         IN  (IF ok THEN <<row>> ELSE <<>>) \o SelectRows(Tail(tb), h, skipRepeats)

\* the table is too small to be looked at (lines 306-310)
TooSmall(tb) == tb = <<>> \/ Len(tb) < 2 \/ MaxCols(tb) < 3

\* lines 305-332, one turn of the loop over the tables: the header after
\* the table and the rows it adds
Collect(h, tb) ==
    IF TooSmall(tb) THEN [headers |-> h, rows |-> <<>>]
    ELSE IF h = NoHeaders
    THEN IF ~is_transaction_table(Candidate(tb[1])) THEN [headers |-> h, rows |-> <<>>]
         ELSE [headers |-> Candidate(tb[1]),
               rows |-> SelectRows(Tail(tb), Candidate(tb[1]), FALSE)]
    ELSE [headers |-> h, rows |-> SelectRows(tb, h, TRUE)]

\* lines 236-243: the columns whose lower-cased name holds a keyword
KeywordCols(h, kws) == {i \in 1..Len(h) : ContainsAny(Lower(h[i]), kws)}
First(S) == CHOOSE i \in S : \A j \in S : i <= j

\* monetary_pattern.search(s) for \d[\d.,]+
MonetarySearch(s) ==
    \E i \in 1..(Len(s) - 1) : s[i] \in DIGITS /\ s[i + 1] \in DIGITS \cup {".", ","}

\* lines 252-254: the cells of column c that look like money
MonetaryCount(rows, c) ==
    Cardinality({r \in 1..Len(rows) : Truthy(rows[r][c]) /\ MonetarySearch(CellStr(rows[r][c]))})

\* lines 250-256: the first column with the greatest count above zero; 0
\* stands for best_col = None
BestCol(h, rows) ==
    LET cols == {c \in 1..Len(h) : MonetaryCount(rows, c) > 0}
    IN  IF cols = {} THEN 0
        ELSE CHOOSE c \in cols :
                 /\ \A d \in cols : MonetaryCount(rows, d) <= MonetaryCount(rows, c)
                 /\ \A d \in cols : d < c => MonetaryCount(rows, d) < MonetaryCount(rows, c)

RECURSIVE KeepDigitsSeps(_)
\* re.sub(r'[^\d.,]', '', s)
KeepDigitsSeps(s) ==
    IF s = <<>> THEN <<>>
    ELSE (IF Head(s) \in DIGITS \cup {".", ","} THEN <<Head(s)>> ELSE <<>>)
             \o KeepDigitsSeps(Tail(s))

\* lines 259-265
to_signed(val) ==
    IF ~Truthy(val) THEN None
    ELSE LET s      == Strip(CellStr(val))
             is_neg == StartsWith(s, <<"-">>) \/ Contains(s, <<"(">>)
             num    == clean_number(KeepDigitsSeps(s))
         IN  IF IsNumber(num) THEN (IF is_neg THEN PyNeg(num) ELSE num) ELSE None

\* a cell of a column of the frame that an assignment or a drop took away
Replaced == <<"Replaced">>

\* the columns df['Salidas'] = / df['Entradas'] = write to, and with them the
\* column lines 267 and 270 make and drop
ASSIGNED_COLUMNS == {<<"S", "a", "l", "i", "d", "a", "s">>, <<"E", "n", "t", "r", "a", "d", "a", "s">>}
AMOUNT_COLUMN == <<"_", "a", "m", "o", "u", "n", "t">>

\* the cells of a row the frame still holds under their own column: an
\* assignment to a column that exists replaces it where it stands
FrameCells(h, row, names) ==
    [c \in 1..Len(row) |-> IF h[c] \in names THEN Replaced ELSE row[c]]

\* lines 267-270: the signed amount split into Entradas and Salidas
AmountRow(h, row, amount) ==
    [cells |-> FrameCells(h, row, ASSIGNED_COLUMNS \cup {AMOUNT_COLUMN}),
     Entradas |-> IF IsNumber(amount) /\ IsPositive(amount) THEN amount ELSE None,
     Salidas |-> IF IsNumber(amount) /\ IsNegative(amount) THEN PyAbs(amount) ELSE None]

\* lines 246-247: the pair of columns normalized as they are
PairRow(h, row, debit, credit) ==
    [cells |-> FrameCells(h, row, ASSIGNED_COLUMNS), Entradas |-> clean_number(row[credit]), Salidas |-> clean_number(row[debit])]

\* _process_table_data keeping only the rows that carry an amount
process_table_dataDroppingEmpty(h, rows) ==
    LET debit_cols  == KeywordCols(h, DEBIT_KEYWORDS)
        credit_cols == KeywordCols(h, CREDIT_KEYWORDS)
        best_col    == BestCol(h, rows)
        kept        == SelectSeq(rows, LAMBDA row : IsNumber(to_signed(row[best_col])))
    IN  IF debit_cols # {} /\ credit_cols # {}
        THEN DataFrame("table",
                 [r \in 1..Len(rows) |-> PairRow(h, rows[r], First(debit_cols), First(credit_cols))])
        ELSE IF best_col # 0 /\ h[best_col] # <<>>
        THEN DataFrame("table",
                 [r \in 1..Len(kept) |-> AmountRow(h, kept[r], to_signed(kept[r][best_col]))])
        ELSE DataFrame("table", [r \in 1..Len(rows) |-> [cells |-> rows[r]]])

\* _process_table_data(headers, rows); the column names are distinct
process_table_data(h, rows) ==
    LET debit_cols  == KeywordCols(h, DEBIT_KEYWORDS)
        credit_cols == KeywordCols(h, CREDIT_KEYWORDS)
        best_col    == BestCol(h, rows)
    IN  IF debit_cols # {} /\ credit_cols # {}
        THEN DataFrame("table",
                 [r \in 1..Len(rows) |-> PairRow(h, rows[r], First(debit_cols), First(credit_cols))])
        ELSE IF best_col # 0 /\ h[best_col] # <<>>
        THEN DataFrame("table",
                 [r \in 1..Len(rows) |-> AmountRow(h, rows[r], to_signed(rows[r][best_col]))])
        ELSE DataFrame("table", [r \in 1..Len(rows) |-> [cells |-> rows[r]]])

RECURSIVE Flatten(_)
Flatten(parts) == IF parts = <<>> THEN <<>> ELSE Head(parts) \o Flatten(Tail(parts))

\* ('\n'.join(all_text_parts)).split('\n'), a text being given by its lines
JoinedLines(parts) == IF parts = <<>> THEN <<LineEmpty>> ELSE Flatten(parts)

\* lines 334-339 with the threshold one lower
StatementResultFromFour(h, rows, parts) ==
    IF rows # <<>> /\ Len(rows) >= MIN_TABLE_ROWS - 1
    THEN process_table_data(h, rows)
    ELSE parse_text_transactions(JoinedLines(parts))

\* lines 334-339: the table rows when there are enough, else the text
StatementResult(h, rows, parts) ==
    IF rows # <<>> /\ Len(rows) >= MIN_TABLE_ROWS
    THEN process_table_data(h, rows)
    ELSE parse_text_transactions(JoinedLines(parts))

\* UploadResponse answering with a sheet whatever the result
UploadResponseAlwaysSheet(df, sheet) ==
    [status |-> 200, sheet |-> sheet, rows |-> IF df = None THEN <<>> ELSE df.rows]

\* lines 371-386 and 511-526: 422 without data, else the one sheet
UploadResponse(df, sheet) ==
    IF df = None \/ df.rows = <<>> THEN [status |-> 422]
    ELSE [status |-> 200, sheet |-> sheet, rows |-> df.rows]

----------------------------------------------------------------------------
(* extract_planilla_pila                                                   *)

PLANILLA_COLS_52 ==
    [ No |-> 0, Tipo |-> 1, ID |-> 2, Nombre |-> 4, Pension_Codigo |-> 24,
      Pension_Dias |-> 25, Pension_IBC |-> 26, Pension_Aporte |-> 29,
      Salud_EPS |-> 30, Salud_Dias |-> 31, Salud_IBC |-> 32,
      Salud_Aporte |-> 33, CCF_Codigo |-> 35, CCF_Dias |-> 36,
      CCF_IBC |-> 37, CCF_Aporte |-> 39, Riesgo_Codigo |-> 42,
      Riesgo_Dias |-> 43, Riesgo_IBC |-> 44, Riesgo_Tarifa |-> 45,
      Riesgo_Aporte |-> 46, Paraf_Dias |-> 47, Paraf_IBC |-> 48,
      Paraf_Aporte |-> 49, Exonerado |-> 50, Total |-> 51 ]

PLANILLA_COLS_43 ==
    [ No |-> 0, Tipo |-> 1, ID |-> 2, Nombre |-> 3, Pension_Codigo |-> 21,
      Pension_Dias |-> 22, Pension_IBC |-> 23, Pension_Aporte |-> 24,
      Salud_EPS |-> 25, Salud_Dias |-> 26, Salud_IBC |-> 27,
      Salud_Aporte |-> 28, CCF_Codigo |-> 29, CCF_Dias |-> 30,
      CCF_IBC |-> 31, CCF_Aporte |-> 32, Riesgo_Codigo |-> 33,
      Riesgo_Dias |-> 34, Riesgo_IBC |-> 35, Riesgo_Tarifa |-> 36,
      Riesgo_Aporte |-> 37, Paraf_Dias |-> 38, Paraf_IBC |-> 39,
      Paraf_Aporte |-> 40, Exonerado |-> 41, Total |-> 42 ]

PLANILLA_MONEY ==
    {"Pension_IBC", "Pension_Aporte", "Salud_IBC", "Salud_Aporte",
     "CCF_IBC", "CCF_Aporte", "Riesgo_IBC", "Riesgo_Aporte",
     "Paraf_IBC", "Paraf_Aporte", "Total"}

PLANILLA_INT ==
    {"Pension_Dias", "Salud_Dias", "CCF_Dias", "Riesgo_Dias", "Paraf_Dias"}

PLANILLA_RENAME ==
    [ No |-> "No.", ID |-> "Identificación",
      Pension_Codigo |-> "Pensión_Código", Pension_Dias |-> "Pensión_Días",
      Pension_IBC |-> "Pensión_IBC", Pension_Aporte |-> "Pensión_Aporte",
      Salud_EPS |-> "Salud_EPS", Salud_Dias |-> "Salud_Días",
      Salud_IBC |-> "Salud_IBC", Salud_Aporte |-> "Salud_Aporte",
      CCF_Codigo |-> "CCF_Código", CCF_Dias |-> "CCF_Días",
      CCF_IBC |-> "CCF_IBC", CCF_Aporte |-> "CCF_Aporte",
      Riesgo_Codigo |-> "Riesgo_Código", Riesgo_Dias |-> "Riesgo_Días",
      Riesgo_IBC |-> "Riesgo_IBC", Riesgo_Tarifa |-> "Riesgo_Tarifa%",
      Riesgo_Aporte |-> "Riesgo_Aporte", Paraf_Dias |-> "Paraf_Días",
      Paraf_IBC |-> "Paraf_IBC", Paraf_Aporte |-> "Paraf_Aporte",
      Total |-> "Total_Aportes" ]

\* s.split('\n')[0]
FirstLine(s) ==
    IF \A i \in 1..Len(s) : s[i] # "\n" THEN s
    ELSE SliceTo(s, (CHOOSE i \in 1..Len(s) :
                        s[i] = "\n" /\ \A j \in 1..(i - 1) : s[j] # "\n") - 1)

\* int(s) of a str: [ok, v]; an optional sign and digits
IntDigits(neg, body) ==
    IF IsDigit(body)
    THEN [ok |-> TRUE, v |-> IF neg THEN -DigitsVal(body) ELSE DigitsVal(body)]
    ELSE [ok |-> FALSE, v |-> 0]

IntSign(s) ==
    IntDigits(s # <<>> /\ s[1] = "-", IF s # <<>> /\ s[1] \in {"-", "+"} THEN Tail(s) ELSE s)

PyIntOf(str) == IntSign(Strip(str))

\* lines 479-482, given f = float(val): the float, or val as it was
TarifaOrPass(f, val) == IF f.ok THEN PyFloatVal(f.m, f.e) ELSE Raw(val)

\* lines 486-489, given n = int(...): the int, or val as it was
DiasOrPass(n, val) == IF n.ok THEN PyInt(n.v) ELSE Raw(val)

\* lines 473-491, given val = str(val).strip()
ConvertField(field, val) ==
    IF field = "Pension_Codigo" THEN Raw(Strip(FirstLine(val)))
    ELSE IF field = "Riesgo_Tarifa"
    THEN TarifaOrPass(PyFloat(Strip(ReplaceChar(val, "%", <<>>))),
                      Strip(ReplaceChar(val, "%", <<>>)))
    ELSE IF field \in PLANILLA_MONEY THEN clean_number(val)
    ELSE IF field \in PLANILLA_INT THEN DiasOrPass(PyIntOf(Strip(FirstLine(val))), val)
    ELSE Raw(ReplaceChar(val, "\n", <<" ">>))

\* lines 472-493: the value of a field from its cell
FieldValue(field, val) ==
    IF val = Absent \/ val = <<>> THEN None ELSE ConvertField(field, Strip(val))

\* row[ci] if ci < len(row) else None
CellAt(row, ci) == IF ci < Len(row) THEN row[ci + 1] ELSE Absent

\* lines 469-494
PlanillaRecord(row, col_map) ==
    [field \in DOMAIN col_map |-> FieldValue(field, CellAt(row, col_map[field]))]

\* lines 463-467: the first cell is there and, trimmed, is all digits
IsEmployeeRow(row) ==
    /\ row # <<>>
    /\ Truthy(row[1])
    /\ IsDigit(Strip(CellStr(row[1])))

RECURSIVE EmployeeRecords(_, _)
\* lines 462-496: the records of the rows of one table
EmployeeRecords(tb, col_map) ==
    IF tb = <<>> THEN <<>>
    ELSE (IF IsEmployeeRow(Head(tb)) THEN <<PlanillaRecord(Head(tb), col_map)>> ELSE <<>>)
             \o EmployeeRecords(Tail(tb), col_map)

\* ColMap taking any table at least as wide as a known layout
ColMapAtLeast(ncols) ==
    IF ncols >= 52 THEN [ok |-> TRUE, map |-> PLANILLA_COLS_52]
    ELSE IF ncols >= 43 THEN [ok |-> TRUE, map |-> PLANILLA_COLS_43]
    ELSE [ok |-> FALSE, map |-> PLANILLA_COLS_43]

\* lines 454-460: the column map of a table of ncols columns, if it has one
ColMap(ncols) ==
    IF ncols = 52 THEN [ok |-> TRUE, map |-> PLANILLA_COLS_52]
    ELSE IF ncols = 43 THEN [ok |-> TRUE, map |-> PLANILLA_COLS_43]
    ELSE [ok |-> FALSE, map |-> PLANILLA_COLS_43]

\* lines 452-496, one turn of the loop over the tables: the records it adds
TableRecords(tb) ==
    IF tb = <<>> \/ tb[1] = <<>> THEN <<>>
    ELSE IF ~ColMap(Len(tb[1])).ok THEN <<>>
    ELSE EmployeeRecords(tb, ColMap(Len(tb[1])).map)

\* the name of a column after rename(columns=_PLANILLA_RENAME)
Rename(field) == IF field \in DOMAIN PLANILLA_RENAME THEN PLANILLA_RENAME[field] ELSE field

\* a record under the renamed columns
Renamed(record) ==
    [col \in {Rename(field) : field \in DOMAIN record} |->
        record[CHOOSE field \in DOMAIN record : Rename(field) = col]]

\* lines 498-502
PlanillaResult(rs) ==
    IF rs = <<>> THEN None
    ELSE DataFrame("planilla", [r \in 1..Len(rs) |-> Renamed(rs[r])])

----------------------------------------------------------------------------
(* extract_data_from_pdf                                                   *)

\* the literal texts of the four patterns of lines 84-96
SELLER_NAME_ANCHOR == <<"R", "a", "z", "ó", "n", " ", "S", "o", "c", "i", "a", "l", ":", " ">>
SELLER_NIT_ANCHOR == <<"N", "i", "t", " ", "d", "e", "l", " ", "E", "m", "i", "s", "o", "r", ":", " ">>
BUYER_HEADING ==
    <<"D", "a", "t", "o", "s", " ", "d", "e", "l", " ", "A", "d", "q", "u", "i", "r", "i", "e", "n", "t", "e",
      " ", "/", " ", "C", "o", "m", "p", "r", "a", "d", "o", "r">>
BUYER_NAME_ANCHOR ==
    <<"N", "o", "m", "b", "r", "e", " ", "o", " ", "R", "a", "z", "ó", "n", " ", "S", "o", "c", "i", "a", "l", ":", " ">>
BUYER_NIT_ANCHOR ==
    <<"N", "ú", "m", "e", "r", "o", " ", "D", "o", "c", "u", "m", "e", "n", "t", "o", ":", " ">>

ITEM_HEADERS ==
    <<"Nro", "Código", "Descripción", "U/M", "Cantidad", "Precio unitario", "Descuento",
      "Recargo", "IVA", "IVA %", "INC", "INC %", "Total Item">>

NUMERIC_COLUMNS ==
    {"Nro", "Cantidad", "Precio unitario", "Descuento", "Recargo", "IVA", "IVA %", "INC",
     "INC %", "Total Item"}

\* s.endswith(p)
EndsWith(s, p) == Len(p) <= Len(s) /\ SliceFrom(s, Len(s) - Len(p)) = p

\* s.find(sub): the 0-based index of the first sub; sub is in s
FindSub(s, sub) ==
    CHOOSE i \in 0..(Len(s) - Len(sub)) :
        /\ SubSeq(s, i + 1, i + Len(sub)) = sub
        /\ \A j \in 0..(i - 1) : SubSeq(s, j + 1, j + Len(sub)) # sub

\* no match, and the match whose group is g
NoMatch == [found |-> FALSE, group |-> <<>>]
Match(g) == [found |-> TRUE, group |-> g]

RECURSIVE Search(_, _)
\* re.search(anchor + r"(.*?)\n", text) on a text given by its lines, each
\* ended by a line break: the leftmost anchor, the group up to the line's end
Search(lines, anchor) ==
    IF lines = <<>> THEN NoMatch
    ELSE IF Contains(Head(lines), anchor)
    THEN Match(SliceFrom(Head(lines), FindSub(Head(lines), anchor) + Len(anchor)))
    ELSE Search(Tail(lines), anchor)

RECURSIVE SearchUnder(_, _, _)
\* re.search(heading + r"\n" + anchor + r"(.*?)\n", text): the first line
\* ending in the heading whose next line starts with the anchor
SearchUnder(lines, heading, anchor) ==
    IF Len(lines) < 2 THEN NoMatch
    ELSE IF EndsWith(lines[1], heading) /\ StartsWith(lines[2], anchor)
    THEN Match(SliceFrom(lines[2], Len(anchor)))
    ELSE SearchUnder(Tail(lines), heading, anchor)

\* {}: .get() of either key is None
NoParty == [Razon_Social |-> None, NIT |-> None]

\* Party filling each field whose own anchor is found
PartyFieldByField(name, nit) ==
    [Razon_Social |-> IF name.found THEN Raw(Strip(name.group)) ELSE None,
     NIT |-> IF nit.found THEN Raw(Strip(nit.group)) ELSE None]

\* lines 86-90 and 97-101: the party when both matches are there
Party(name, nit) ==
    IF name.found /\ nit.found
    THEN [Razon_Social |-> Raw(Strip(name.group)), NIT |-> Raw(Strip(nit.group))]
    ELSE NoParty

RECURSIVE InvoiceText(_)
\* lines 77-81: the texts of the pages that have one, each ended by a line
\* break, as lines
InvoiceText(texts) ==
    IF texts = <<>> THEN <<>>
    ELSE (IF Head(texts) # <<Absent>> /\ Head(texts) # <<<<>>>> THEN Head(texts) ELSE <<>>)
             \o InvoiceText(Tail(texts))

\* lines 116-119
ItemValue(header, val) ==
    IF header \in NUMERIC_COLUMNS THEN clean_number(val)
    ELSE IF val = Absent THEN None ELSE Raw(val)

\* lines 114-119
ItemData(row) ==
    [header \in {ITEM_HEADERS[i] : i \in 1..Len(ITEM_HEADERS)} |->
        ItemValue(header, CellAt(row, (CHOOSE i \in 1..Len(ITEM_HEADERS) : ITEM_HEADERS[i] = header) - 1))]

\* lines 113-120
ItemRows(data_rows) == [r \in 1..Len(data_rows) |-> ItemData(data_rows[r])]

\* lines 105-120: the items of the first table of the first page, from its
\* third row on
Items(tables) ==
    IF tables = <<>> THEN <<>> ELSE ItemRows(SliceFrom(tables[1], 2))

\* lines 122-128
InvoiceResult(v, c, its) ==
    [Info |-> << [Tipo |-> "Vendedor", Razon_Social |-> v.Razon_Social, NIT |-> v.NIT],
                 [Tipo |-> "Comprador", Razon_Social |-> c.Razon_Social, NIT |-> c.NIT] >>,
     Items |-> its]

\* lines 352-362: the two sheets
InvoiceResponse(frames) ==
    [status |-> 200, sheets |-> <<"Info", "Items">>, Info |-> frames.Info, Items |-> frames.Items]

----------------------------------------------------------------------------
(* Bank statements: what the PDF decoder hands over                        *)

\* a debit/credit pair of columns; some rows fill both
TablePair ==
    << <<<<"F", "e", "c", "h", "a">>, <<"D", "é", "b", "i", "t", "o", "s">>, <<"C", "r", "é", "d", "i", "t", "o", "s">>>>,
       <<<<"0", "1", "/", "0", "4">>, <<"$", " ", "0", ".", "0", "0">>, <<"$", " ", "5", ",", "0", "0", "0", ".", "0", "0">>>>,
       <<<<"0", "2", "/", "0", "4">>, <<"1", ".", "4", "5", "2", ",", "5", "0">>, <<>>>>,
       <<<<"0", "3", "/", "0", "4">>, <<"1", "0", ".", "0", "0">>, <<"2", "0", ".", "0", "0">>>> >>

\* the next page of TablePair: the header again, a blank row, a short row
TablePairNext ==
    << <<<<"F", "e", "c", "h", "a">>, <<"D", "é", "b", "i", "t", "o", "s">>, <<"C", "r", "é", "d", "i", "t", "o", "s">>>>,
       <<<<"0", "4", "/", "0", "4">>, Absent, <<"7", ",", "0", "0">>>>,
       <<Absent, <<>>, Absent>>,
       <<<<"0", "5", "/", "0", "4">>, <<"n", "/", "a">>>>,
       <<<<"0", "6", "/", "0", "4">>, <<"a", "b", "c">>, <<"-">>>> >>

\* one amount column; exactly four rows under the header
TableSingle4 ==
    << <<<<"F", "e", "c", "h", "a">>, <<"C", "o", "n", "c", "e", "p", "t", "o">>, <<"V", "a", "l", "o", "r">>>>,
       <<<<"1", "-", "A", "B", "R">>, <<"P", "A", "G", "O">>, <<"-", "5", "0", "0", ".", "0", "0">>>>,
       <<<<"2", "-", "A", "B", "R">>, <<"A", "B", "O", "N", "O">>, <<"2", "4", ",", "3", "0", "0", ".", "0", "0">>>>,
       <<<<"3", "-", "A", "B", "R">>, <<"R", "E", "T", "I", "R", "O">>, <<"(", "1", ".", "2", "0", "0", ",", "0", "0", ")">>>>,
       <<<<"4", "-", "A", "B", "R">>, <<"N", "O", "T", "A">>, <<"0">>>> >>

\* a headerless continuation of TableSingle4
TableSingleNext ==
    << <<<<"5", "-", "A", "B", "R">>, <<"C", "U", "O", "T", "A">>, <<"-", " ", "3", "5", ",", "5", "0">>>>,
       <<<<"6", "-", "A", "B", "R">>, <<>>, <<"1", "2">>>> >>

\* a totals table: no transaction keyword in its header, five well-formed rows
TableDecoy ==
    << <<<<"R", "e", "s", "u", "m", "e", "n">>, <<"C", "a", "r", "g", "o", "s">>, <<"A", "b", "o", "n", "o", "s">>>>,
       <<<<"E", "n", "e", "r", "o">>, <<"1", ",", "0", "0">>, <<"2", ",", "0", "0">>>>,
       <<<<"F", "e", "b", "r", "e", "r", "o">>, <<"3", ",", "0", "0">>, <<"4", ",", "0", "0">>>>,
       <<<<"M", "a", "r", "z", "o">>, <<"5", ",", "0", "0">>, <<"6", ",", "0", "0">>>>,
       <<<<"A", "b", "r", "i", "l">>, <<"7", ",", "0", "0">>, <<"8", ",", "0", "0">>>>,
       <<<<"M", "a", "y", "o">>, <<"9", ",", "0", "0">>, <<"1", ",", "0", "0">>>> >>

\* a keyword header over rows of fewer cells
TableNoCols ==
    << <<Absent, <<" ", "D", "e", "t", "a", "l", "l", "e", " ">>, <<>>>>,
       <<<<"x">>>>,
       <<<<"y">>, <<"z">>>> >>

\* two columns only
TableNarrow ==
    << <<<<"F", "e", "c", "h", "a">>, <<"V", "a", "l", "o", "r">>>>,
       <<<<"1", "/", "0", "4">>, <<"5", ".", "0", "0">>>>,
       <<<<"2", "/", "0", "4">>, <<"6", ".", "0", "0">>>> >>

\* a header and nothing under it
TableOneRow ==
    << <<<<"F", "e", "c", "h", "a">>, <<"C", "o", "n", "c", "e", "p", "t", "o">>, <<"V", "a", "l", "o", "r">>>> >>

\* the amounts stand in a column that is itself named Entradas; the third
\* amount is no number
TableNamed ==
    << <<<<"F", "e", "c", "h", "a">>, <<"D", "e", "t", "a", "l", "l", "e">>, <<"E", "n", "t", "r", "a", "d", "a", "s">>>>,
       <<<<"1", "-", "M", "A", "Y">>, <<"P", "A", "G", "O">>, <<"-", "5", "0", "0", ".", "0", "0">>>>,
       <<<<"2", "-", "M", "A", "Y">>, <<"A", "B", "O", "N", "O">>, <<"7", ".", "5", "0">>>>,
       <<<<"3", "-", "M", "A", "Y">>, <<"N", "O", "T", "A">>, <<"s", "/", "n">>>>,
       <<<<"4", "-", "M", "A", "Y">>, <<"C", "U", "O", "T", "A">>, <<"1">>>>,
       <<<<"5", "-", "M", "A", "Y">>, <<"G", "I", "R", "O">>, <<"2">>>> >>

Tables ==
    {TablePair, TablePairNext, TableSingle4, TableSingleNext, TableDecoy, TableNoCols,
     TableNarrow, TableOneRow, TableNamed, <<>>}

\* page.extract_text() is None
NoText == <<Absent>>
\* page.extract_text() is ''
EmptyText == <<LineEmpty>>
\* seven lines of Dialect A
TextA7 == <<LineA1, LineA2, LineA3, LineA1, LineA2, LineA3, LineA1>>
\* Dialect B between a header and a footer, one line continued
TextB == <<LineSkip2, LineB1, LineOther1, LineB3, LineSkip1>>
TextOther == <<LineOther1, LineBlank>>

PageTexts == {NoText, EmptyText, TextA7, TextB, TextOther}

----------------------------------------------------------------------------
(* Planillas: what the PDF decoder hands over                              *)

\* the cells a planilla row is filled with, after its first
PlanillaCells ==
    << <<"C", "C">>,
       <<"3", "0", "\n", "1">>,
       <<"1", ".", "2", "2", "5", ".", "0", "0", "0">>,
       <<"0", ",", "5", "2", "2", "%">>,
       Absent,
       <<"J", "U", "A", "N", "\n", "P", "E", "R", "E", "Z">>,
       <<" ", "9", "8", ",", "5", "0", " ">>,
       <<>>,
       <<"2", "5", "-", "1", "4", "\n", "2", "5">>,
       <<"3", "0">>,
       <<"1", ".", "5", " ", "%">> >>

\* a row of ncols cells under a given first cell
PlanillaRow(first, ncols) ==
    [i \in 1..ncols |->
        IF i = 1 THEN first ELSE PlanillaCells[((i - 2) % Len(PlanillaCells)) + 1]]

\* the wide layout: a heading, two employees, the totals, two rows without
\* a first cell
Planilla52 ==
    << PlanillaRow(<<"N", "o", ".">>, 52),
       PlanillaRow(<<"1">>, 52),
       PlanillaRow(<<" ", "2", " ">>, 52),
       PlanillaRow(<<"T", "o", "t", "a", "l", "e", "s">>, 52),
       PlanillaRow(Absent, 52),
       PlanillaRow(<<>>, 52) >>

\* the standard layout: an employee, a row that is none, a short employee
\* row, an empty row
Planilla43 ==
    << PlanillaRow(<<"3">>, 43),
       PlanillaRow(<<"1", "2", "a">>, 43),
       <<<<"4">>, <<"C", "C">>, <<"7", "9">>>>,
       <<>> >>

\* the wide layout with one employee and nothing else
PlanillaOne == << PlanillaRow(<<"1">>, 52) >>

\* a summary table of fifty columns whose rows start with digits
Planilla50 == << PlanillaRow(<<"5">>, 50), PlanillaRow(<<"6">>, 50) >>

\* a wide row under an empty first row, and under a narrow first row
PlanillaNoHead == << <<>>, PlanillaRow(<<"7">>, 52) >>
PlanillaNarrowHead == << <<<<"8">>, <<"x">>>>, PlanillaRow(<<"9">>, 52) >>

PlanillaTables ==
    {Planilla52, Planilla43, PlanillaOne, Planilla50, PlanillaNoHead, PlanillaNarrowHead, <<>>}

PlanillaDocs == SeqsUpTo(PlanillaTables, MaxPlanillaTables)

----------------------------------------------------------------------------
(* Invoices: what the PDF decoder hands over                               *)

\* both parties in full
TextInvoice ==
    << <<"F", "a", "c", "t", "u", "r", "a", " ", "E", "l", "e", "c", "t", "r", "ó", "n", "i", "c", "a", " ", "d", "e", " ", "V", "e", "n", "t", "a">>,
       <<"R", "a", "z", "ó", "n", " ", "S", "o", "c", "i", "a", "l", ":", " ", "A", "C", "M", "E", " ", "S", "A", "S", " ">>,
       <<"N", "i", "t", " ", "d", "e", "l", " ", "E", "m", "i", "s", "o", "r", ":", " ", "9", "0", "0", "1", "2", "3", "-", "4">>,
       BUYER_HEADING,
       <<"N", "o", "m", "b", "r", "e", " ", "o", " ", "R", "a", "z", "ó", "n", " ", "S", "o", "c", "i", "a", "l", ":", " ", "J", "u", "a", "n", " ", "R", "u", "i", "z">>,
       <<"N", "ú", "m", "e", "r", "o", " ", "D", "o", "c", "u", "m", "e", "n", "t", "o", ":", " ", "1", "0", "3", "2">> >>

\* the seller's name without its tax id, the anchor inside the line
TextSellerName ==
    << <<"C", "U", "F", "E", ":", " ", "R", "a", "z", "ó", "n", " ", "S", "o", "c", "i", "a", "l", ":", " ", "X">> >>

\* the seller's tax id without its name, the value empty
TextSellerNit ==
    << <<"N", "i", "t", " ", "d", "e", "l", " ", "E", "m", "i", "s", "o", "r", ":", " ">> >>

\* the buyer alone
TextBuyer ==
    << BUYER_HEADING,
       <<"N", "o", "m", "b", "r", "e", " ", "o", " ", "R", "a", "z", "ó", "n", " ", "S", "o", "c", "i", "a", "l", ":", " ", "J", "u", "a", "n", " ", "R", "u", "i", "z">>,
       <<"N", "ú", "m", "e", "r", "o", " ", "D", "o", "c", "u", "m", "e", "n", "t", "o", ":", " ", "1", "0", "3", "2">> >>

\* the buyer's heading closing a page
TextBuyerHeading == << LineOther1, BUYER_HEADING >>

\* the buyer's tax id alone, and the buyer's name away from its heading
TextBuyerNit ==
    << <<"N", "ú", "m", "e", "r", "o", " ", "D", "o", "c", "u", "m", "e", "n", "t", "o", ":", " ", "1", "0", "3", "2">> >>

InvoiceTexts ==
    {NoText, EmptyText, TextInvoice, TextSellerName, TextSellerNit, TextBuyer,
     TextBuyerHeading, TextBuyerNit, TextOther}

\* the items: two heading rows, a full row, a short row
TableItems ==
    << <<<<"N", "r", "o">>, <<"C", "ó", "d", "i", "g", "o">>>>,
       <<Absent, Absent>>,
       <<<<"1">>, <<"A", "0", "1">>, <<"T", "o", "r", "n", "i", "l", "l", "o">>, <<"U", "N">>,
         <<"2", ",", "0", "0">>, <<"1", ".", "5", "0", "0", ",", "0", "0">>, <<"0", ",", "0", "0">>,
         <<>>, <<"5", "7", "0", ",", "0", "0">>, <<"1", "9", ".", "0", "0">>, Absent,
         <<"n", "/", "a">>, <<"$", " ", "3", ".", "5", "7", "0", ",", "0", "0">>>>,
       <<<<"2">>, Absent, <<"F", "l", "e", "t", "e">>>> >>

\* page.extract_tables() of the first page
InvoiceTables == {<<>>, <<TableItems>>, <<TableOneRow, TableItems>>}

InvoiceDocs ==
    {[texts |-> ts, tables |-> tbs] :
        ts \in SeqsUpTo(InvoiceTexts, MaxInvoicePages) \ {<<>>}, tbs \in InvoiceTables}

----------------------------------------------------------------------------
(* The processes at rest: each specification runs one of them           *)

NumIdle ==
    /\ value = Absent
    /\ cn_result = None
    /\ cn_first = None
    /\ cn_pc = "idle"

TextIdle ==
    /\ full_text = <<LineEmpty>>
    /\ candidates = <<>>
    /\ tx_result = None
    /\ tx_pc = "idle"

BankIdle ==
    /\ n_pages = 0
    /\ n_tables = 0
    /\ text = NoText
    /\ table = <<>>
    /\ all_text_parts = <<>>
    /\ all_table_rows = <<>>
    /\ headers = NoHeaders

DocIdle ==
    /\ pdf = <<>>
    /\ employee_rows = <<>>

InvoiceIdle ==
    /\ vendedor = NoParty
    /\ comprador = NoParty
    /\ items = <<>>

ReqIdle ==
    /\ endpoint = "none"
    /\ pc = "idle"
    /\ result = None
    /\ response = [status |-> 0]

----------------------------------------------------------------------------
(* clean_number as a process: call, re-stringify the number, call again    *)

InitNum ==
    /\ value \in NumInputs
    /\ cn_result = None
    /\ cn_first = None
    /\ cn_pc = "call"
    /\ TextIdle /\ ReqIdle /\ BankIdle /\ DocIdle /\ InvoiceIdle

\* clean_number(value)
CleanNumberCall ==
    /\ cn_pc = "call"
    /\ cn_result' = clean_number(value)
    /\ cn_pc' = "returned"
    /\ UNCHANGED <<value, cn_first>>
    /\ UNCHANGED <<textVars, reqVars, bankVars, docVars, invoiceVars>>

\* str(n) of a numeric result, handed back to clean_number
Restringify ==
    /\ cn_pc = "returned"
    /\ IsNumber(cn_result)
    /\ value' = PyStr(cn_result)
    /\ cn_first' = cn_result
    /\ cn_result' = None
    /\ cn_pc' = "again"
    /\ UNCHANGED <<textVars, reqVars, bankVars, docVars, invoiceVars>>

\* clean_number(str(n))
CleanNumberAgain ==
    /\ cn_pc = "again"
    /\ cn_result' = clean_number(value)
    /\ cn_pc' = "done"
    /\ UNCHANGED <<value, cn_first>>
    /\ UNCHANGED <<textVars, reqVars, bankVars, docVars, invoiceVars>>

NextNum == CleanNumberCall \/ Restringify \/ CleanNumberAgain

SpecNum == InitNum /\ [][NextNum]_vars

----------------------------------------------------------------------------
(* _parse_text_transactions as a process: the list `candidates` is built   *)
(* parser by parser, then filtered and the longest taken                   *)

InitText ==
    /\ full_text \in TextInputs
    /\ candidates = <<>>
    /\ tx_result = None
    /\ tx_pc = "parse"
    /\ NumIdle /\ ReqIdle /\ BankIdle /\ DocIdle /\ InvoiceIdle

\* lines 221-224: the next element of the list is evaluated
RunNextParser ==
    /\ tx_pc = "parse"
    /\ Len(candidates) < Len(TextParsers)
    /\ candidates' = Append(candidates, RunParser(TextParsers[Len(candidates) + 1], full_text))
    /\ UNCHANGED <<full_text, tx_result, tx_pc>>
    /\ UNCHANGED <<numVars, reqVars, bankVars, docVars, invoiceVars>>

\* lines 225-228
ReturnBest ==
    /\ tx_pc = "parse"
    /\ Len(candidates) = Len(TextParsers)
    /\ tx_result' = SelectCandidate(candidates)
    /\ tx_pc' = "returned"
    /\ UNCHANGED <<full_text, candidates>>
    /\ UNCHANGED <<numVars, reqVars, bankVars, docVars, invoiceVars>>

NextText == RunNextParser \/ ReturnBest

SpecText == InitText /\ [][NextText]_vars

----------------------------------------------------------------------------
(* The upload endpoints as processes                                       *)

InitBank ==
    /\ endpoint = "upload-bank"
    /\ pc = "pages"
    /\ result = None
    /\ response = [status |-> 0]
    /\ BankIdle
    /\ DocIdle
    /\ InvoiceIdle

\* lines 300-303: the next page is opened and its text kept when there is some
ExtractText ==
    /\ endpoint = "upload-bank" /\ pc = "pages"
    /\ n_pages < MaxPages
    /\ \E t \in PageTexts :
          /\ text' = t
          /\ all_text_parts' = IF t # NoText /\ t # EmptyText
                               THEN Append(all_text_parts, t) ELSE all_text_parts
    /\ n_pages' = n_pages + 1
    /\ UNCHANGED <<n_tables, table, all_table_rows, headers>>
    /\ UNCHANGED <<endpoint, pc, result, response>>
    /\ UNCHANGED <<docVars, invoiceVars, numVars, textVars>>

\* lines 305-332: the next table of the page at hand
ProcessTable ==
    /\ endpoint = "upload-bank" /\ pc = "pages"
    /\ n_pages >= 1
    /\ n_tables < MaxTables
    /\ \E tb \in Tables :
          /\ table' = tb
          /\ headers' = Collect(headers, tb).headers
          /\ all_table_rows' = all_table_rows \o Collect(headers, tb).rows
    /\ n_tables' = n_tables + 1
    /\ UNCHANGED <<n_pages, text, all_text_parts>>
    /\ UNCHANGED <<endpoint, pc, result, response>>
    /\ UNCHANGED <<docVars, invoiceVars, numVars, textVars>>

\* lines 334-339: the pages are done and extract_bank_statement returns
ReturnStatement ==
    /\ endpoint = "upload-bank" /\ pc = "pages"
    /\ result' = StatementResult(headers, all_table_rows, all_text_parts)
    /\ pc' = "returned"
    /\ UNCHANGED <<endpoint, response>>
    /\ UNCHANGED <<bankVars, docVars, invoiceVars, numVars, textVars>>

\* lines 371-386: upload_bank_statement answers
RespondBank ==
    /\ endpoint = "upload-bank" /\ pc = "returned"
    /\ response' = UploadResponse(result, "Movimientos")
    /\ pc' = "responded"
    /\ UNCHANGED <<endpoint, result>>
    /\ UNCHANGED <<bankVars, docVars, invoiceVars, numVars, textVars>>

InitPlanilla ==
    /\ endpoint = "upload-planilla"
    /\ pc = "tables"
    /\ result = None
    /\ response = [status |-> 0]
    /\ pdf \in PlanillaDocs
    /\ employee_rows = <<>>
    /\ n_pages = 0
    /\ n_tables = 0
    /\ text = NoText
    /\ table = <<>>
    /\ all_text_parts = <<>>
    /\ all_table_rows = <<>>
    /\ headers = NoHeaders
    /\ InvoiceIdle

\* lines 451-496: the next table of the document
ProcessPlanillaTable ==
    /\ endpoint = "upload-planilla" /\ pc = "tables"
    /\ n_tables < Len(pdf)
    /\ table' = pdf[n_tables + 1]
    /\ employee_rows' = employee_rows \o TableRecords(pdf[n_tables + 1])
    /\ n_tables' = n_tables + 1
    /\ UNCHANGED <<pdf, n_pages, text, all_text_parts, all_table_rows, headers>>
    /\ UNCHANGED <<reqVars, invoiceVars, numVars, textVars>>

\* lines 498-502: the tables are done and extract_planilla_pila returns
ReturnPlanilla ==
    /\ endpoint = "upload-planilla" /\ pc = "tables"
    /\ n_tables = Len(pdf)
    /\ result' = PlanillaResult(employee_rows)
    /\ pc' = "returned"
    /\ UNCHANGED <<endpoint, response>>
    /\ UNCHANGED <<docVars, bankVars, invoiceVars, numVars, textVars>>

\* lines 511-526: upload_planilla answers
RespondPlanilla ==
    /\ endpoint = "upload-planilla" /\ pc = "returned"
    /\ response' = UploadResponse(result, "Empleados")
    /\ pc' = "responded"
    /\ UNCHANGED <<endpoint, result>>
    /\ UNCHANGED <<docVars, bankVars, invoiceVars, numVars, textVars>>

InitInvoice ==
    /\ endpoint = "uploadfile"
    /\ pc = "parties"
    /\ result = None
    /\ response = [status |-> 0]
    /\ pdf \in InvoiceDocs
    /\ employee_rows = <<>>
    /\ BankIdle
    /\ InvoiceIdle

\* lines 76-101: the text of the pages is joined and searched for the parties
ExtractParties ==
    /\ endpoint = "uploadfile" /\ pc = "parties"
    /\ vendedor' = Party(Search(InvoiceText(pdf.texts), SELLER_NAME_ANCHOR),
                         Search(InvoiceText(pdf.texts), SELLER_NIT_ANCHOR))
    /\ comprador' = Party(SearchUnder(InvoiceText(pdf.texts), BUYER_HEADING, BUYER_NAME_ANCHOR),
                          Search(InvoiceText(pdf.texts), BUYER_NIT_ANCHOR))
    /\ pc' = "items"
    /\ UNCHANGED <<endpoint, result, response, items>>
    /\ UNCHANGED <<docVars, bankVars, numVars, textVars>>

\* lines 103-120: the items of the first page
ExtractItems ==
    /\ endpoint = "uploadfile" /\ pc = "items"
    /\ items' = Items(pdf.tables)
    /\ pc' = "frames"
    /\ UNCHANGED <<endpoint, result, response, vendedor, comprador>>
    /\ UNCHANGED <<docVars, bankVars, numVars, textVars>>

\* lines 122-128: extract_data_from_pdf returns its two frames
ReturnInvoice ==
    /\ endpoint = "uploadfile" /\ pc = "frames"
    /\ result' = InvoiceResult(vendedor, comprador, items)
    /\ pc' = "returned"
    /\ UNCHANGED <<endpoint, response>>
    /\ UNCHANGED <<docVars, bankVars, invoiceVars, numVars, textVars>>

\* lines 352-362: create_upload_file answers
RespondInvoice ==
    /\ endpoint = "uploadfile" /\ pc = "returned"
    /\ response' = InvoiceResponse(result)
    /\ pc' = "responded"
    /\ UNCHANGED <<endpoint, result>>
    /\ UNCHANGED <<docVars, bankVars, invoiceVars, numVars, textVars>>

Init == (InitBank \/ InitPlanilla \/ InitInvoice) /\ NumIdle /\ TextIdle

Next ==
    \/ ExtractText \/ ProcessTable \/ ReturnStatement \/ RespondBank
    \/ ProcessPlanillaTable \/ ReturnPlanilla \/ RespondPlanilla
    \/ ExtractParties \/ ExtractItems \/ ReturnInvoice \/ RespondInvoice

Spec == Init /\ [][Next]_vars

----------------------------------------------------------------------------
(* Properties of clean_number (under SpecNum)                              *)

\* the value of a numeric result times 10^k, -1 when that is no integer
Scaled(r, k) ==
    IF r.kind = "int" THEN r.v * Pow10(k)
    ELSE IF r.e <= k THEN r.m * Pow10(k - r.e)
    ELSE -1

\* value.replace('$', '').strip(), the text the rule is stated on
Marked(v) == Strip(ReplaceChar(v, "$", <<>>))

\* s is digits, one separator c, digits: [ok, before, after]
TwoGroups(s, c) ==
    LET p == RFind(s, c)
    IN  IF /\ p >= 0
           /\ CountChar(s, ".") + CountChar(s, ",") = 1
           /\ \A i \in 1..Len(s) : i = p + 1 \/ s[i] \in DIGITS
           /\ Len(s) > 1
        THEN [ok |-> TRUE, before |-> SliceTo(s, p), after |-> SliceFrom(s, p + 1)]
        ELSE [ok |-> FALSE, before |-> <<>>, after |-> <<>>]

C6_Examples ==
    /\ value = <<"$", " ", "1", ".", "2", "3", "4", ".", "5", "6", "7", ",", "8", "9">>
          => cn_result = PyFloatVal(123456789, 2)
    /\ value = <<"1", ",", "2", "3", "4", ",", "5", "6", "7", ".", "8", "9">>
          => cn_result = PyFloatVal(123456789, 2)
    /\ value = <<".", "8", "6">> => cn_result = PyFloatVal(86, 2)
    /\ value = <<"1", ",", "0", "0">> => cn_result = PyInt(1)
    /\ value = <<"1", "9", ".", "0", "0">> => cn_result = PyInt(19)
    /\ value = <<"1", ".", "2", "2", "5", ".", "0", "0", "0">> => cn_result = PyInt(1225000)
    /\ value = <<"2", "1", "2", ",", "7", "0", "0">> => cn_result = PyInt(212700)

C6_Rules ==
    LET comma == TwoGroups(Marked(value), ",")
        dot   == TwoGroups(Marked(value), ".")
    IN  /\ value # Absent /\ comma.ok /\ Len(comma.after) = 2
              \* a comma before exactly two digits is the decimal point
              => /\ IsNumber(cn_result)
                 /\ Scaled(cn_result, 2) = DigitsVal(comma.before \o comma.after)
                 /\ (cn_result.kind = "int") <=> (DigitsVal(comma.after) = 0)
        /\ value # Absent /\ comma.ok /\ Len(comma.after) # 2
              \* any other comma separates thousands
              => cn_result = PyInt(DigitsVal(comma.before \o comma.after))
        /\ value # Absent /\ dot.ok
              \* a single dot is the decimal point
              => /\ IsNumber(cn_result)
                 /\ Scaled(cn_result, Len(dot.after)) = DigitsVal(dot.before \o dot.after)
                 /\ (cn_result.kind = "int") <=> (DigitsVal(dot.after) = 0)

\* C6: clean_number follows the last-separator-wins rule: the seven
\* examples of the specification yield the values it names, a comma before
\* exactly two digits and a single dot are decimal points, any other comma
\* separates thousands, and the result is an int exactly when the parsed
\* value has no fractional part (a float result always has one).
C6_LastSeparatorWins ==
    cn_pc = "returned" =>
        /\ C6_Examples
        /\ C6_Rules
        /\ cn_result.kind = "float" => cn_result.e >= 1 /\ cn_result.m % 10 # 0

C6_Witness ==
    /\ cn_pc = "returned"
    /\ value = <<"$", " ", "1", ".", "2", "3", "4", ".", "5", "6", "7", ",", "8", "9">>
    /\ cn_result = PyFloatVal(123456789, 2)

\* C7: clean_number is idempotent on its numeric results: clean_number of
\* the re-stringified number is the same number.
C7_Idempotent == cn_pc = "done" => cn_result = cn_first

C7_Witness ==
    /\ cn_pc = "done"
    /\ cn_first.kind = "float"
    /\ cn_first.m < 0
    /\ cn_result = cn_first

----------------------------------------------------------------------------
(* Properties of the text grammars (under SpecText)                        *)

\* the lines of the text that match a pattern
DaviLines(lines) == {i \in 1..Len(lines) : DAVIVIENDA_PATTERN(Strip(lines[i])).ok}
BancoLines(lines) == {i \in 1..Len(lines) : BANCOLOMBIA_PATTERN(Strip(lines[i])).ok}

RowCount(df) == IF df = None THEN 0 ELSE Len(df.rows)

\* line i + 1 continues the description of line i
IsContinuation(lines, i) ==
    /\ i + 1 <= Len(lines)
    /\ Strip(lines[i + 1]) # <<>>
    /\ (i + 1) \notin DaviLines(lines)
    /\ ~DaviSkipMatch(Strip(lines[i + 1]))

\* C4: Dialect B yields one record per line matching the transaction
\* pattern, in order; its description is the line's own description, plus
\* one space and the next line's text when the next line exists, is not
\* empty, is no transaction line and starts with no header/footer phrase.
C4_Continuation ==
    Len(candidates) >= 1 =>
        LET lines == full_text
            davi  == candidates[1]
            tx    == DaviLines(lines)
        IN  /\ RowCount(davi) = Cardinality(tx)
            /\ \A i \in tx :
                  LET k    == Cardinality({j \in tx : j <= i})
                      own  == DAVIVIENDA_PATTERN(Strip(lines[i])).desc_raw
                  IN  davi.rows[k].Descripcion =
                          IF IsContinuation(lines, i)
                          THEN own \o <<" ">> \o Strip(lines[i + 1])
                          ELSE own

C4_Witness ==
    /\ Len(candidates) >= 1
    /\ full_text = <<LineB1, LineOther2, LineB2>>
    /\ RowCount(candidates[1]) = 2
    /\ candidates[1].rows[1].Descripcion =
           <<"A", "b", "o", "n", "o", " ", "v", "e", "n", "t", "a", "s", " ", "R", "E", "F", " ", "9", "9">>
    /\ candidates[1].rows[2].Descripcion = <<"P", "a", "g", "o", " ", "E", "N", "E", "L">>

\* the greatest row count wins and absent is returned exactly when no
\* grammar matched a line
C5_GreatestCount ==
    LET a == Cardinality(BancoLines(full_text))
        b == Cardinality(DaviLines(full_text))
    IN  /\ RowCount(tx_result) = (IF a > b THEN a ELSE b)
        /\ (tx_result = None) <=> (a = 0 /\ b = 0)
        /\ a > b => tx_result.source = "bancolombia"
        /\ b > a => tx_result.source = "davivienda"

C5_Tie ==
    /\ Cardinality(BancoLines(full_text)) = Cardinality(DaviLines(full_text))
    /\ Cardinality(DaviLines(full_text)) > 0

\* C5 as stated: on a tie the first dialect the specification lists,
\* Dialect A (Bancolombia), wins.
C5_TieToDialectA ==
    tx_pc = "returned" =>
        /\ C5_GreatestCount
        /\ C5_Tie => tx_result.source = "bancolombia"

\* C5 amended: _parse_text_transactions returns the result with the
\* greatest row count, absent exactly when every grammar yields no row, and
\* on a tie the grammar the code evaluates first, Dialect B (Davivienda).
C5_TieToFirstEvaluated ==
    tx_pc = "returned" =>
        /\ C5_GreatestCount
        /\ C5_Tie => tx_result.source = "davivienda"

C5_Witness ==
    /\ tx_pc = "returned"
    /\ C5_Tie
    /\ tx_result.source = "davivienda"
    /\ RowCount(tx_result) = 1

----------------------------------------------------------------------------
(* Properties of the bank statement extractor (under Spec)                 *)

\* the extractor has returned
Returned == pc \in {"returned", "responded"}

\* the record has the field and its value is not None
Present(record, field) == field \in DOMAIN record /\ record[field] # None

\* the greater of two numbers
Max(a, b) == IF a > b THEN a ELSE b

\* C1: in every record extract_bank_statement returns, whichever path
\* produced it, Entradas and Salidas are never both present.
C1_NeverBoth ==
    (endpoint = "upload-bank" /\ Returned /\ result # None) =>
        \A i \in 1..Len(result.rows) :
            ~(Present(result.rows[i], "Entradas") /\ Present(result.rows[i], "Salidas"))

\* a record of the debit/credit pair of columns with both fields filled
C1_BothPresent ==
    /\ endpoint = "upload-bank"
    /\ pc = "returned"
    /\ result # None
    /\ result.source = "table"
    /\ result.rows[1].cells = TablePair[2]
    /\ result.rows[1].Salidas = PyInt(0)
    /\ result.rows[1].Entradas = PyInt(5000)

\* the record of a table-path result holds the collected row: cell for
\* cell, but for a column that is itself named Entradas, Salidas or _amount,
\* which the computed amounts take over
HoldsRow(record, row) ==
    /\ Len(record.cells) = Len(row)
    /\ \A c \in 1..Len(row) :
          headers[c] \notin ASSIGNED_COLUMNS \cup {AMOUNT_COLUMN} => record.cells[c] = row[c]

\* the records of a table-path result hold the collected rows, in order
ResultHoldsRows ==
    /\ Len(result.rows) = Len(all_table_rows)
    /\ \A r \in 1..Len(all_table_rows) : HoldsRow(result.rows[r], all_table_rows[r])

C3_DecoyContributesNothing ==
    [][(/\ endpoint = "upload-bank"
        /\ n_tables' = n_tables + 1
        /\ table' # <<>>
        /\ ~is_transaction_table(table'[1]))
          => all_table_rows' = all_table_rows]_vars

\* the rows of a totals table collected after the header is fixed
C3_DecoyCollected ==
    /\ endpoint = "upload-bank"
    /\ pc = "pages"
    /\ table = TableDecoy
    /\ headers # NoHeaders
    /\ Len(all_table_rows) >= Len(TableDecoy)
    /\ all_table_rows[Len(all_table_rows)] = TableDecoy[Len(TableDecoy)]

\* the records the two endpoints' documents hold, counted on the document
BankRecordCount ==
    IF Len(all_table_rows) >= 5 THEN Len(all_table_rows)
    ELSE Max(Cardinality(BancoLines(JoinedLines(all_text_parts))),
             Cardinality(DaviLines(JoinedLines(all_text_parts))))

\* the members of a set of line numbers, in ascending order
RECURSIVE Ascending(_)
Ascending(S) ==
    IF S = {} THEN <<>>
    ELSE LET m == CHOOSE i \in S : \A j \in S : i <= j
         IN  <<m>> \o Ascending(S \ {m})

\* the date a grammar reads on a line it matches
DaviFecha(line) ==
    DAVIVIENDA_PATTERN(Strip(line)).dia \o <<"/">> \o DAVIVIENDA_PATTERN(Strip(line)).mes
BancoFecha(line) == BANCOLOMBIA_PATTERN(Strip(line)).fecha

\* the collected row has a record of the result
RowInResult(row) ==
    /\ result # None
    /\ \E i \in 1..Len(result.rows) :
          "cells" \in DOMAIN result.rows[i] /\ HoldsRow(result.rows[i], row)

\* the line a grammar matched has a record of the result
LineInResult(source, fecha) ==
    /\ result # None
    /\ result.source = source
    /\ \E i \in 1..Len(result.rows) : result.rows[i].Fecha = fecha

\* a value of a record is None, a number, or one of the raw strings given
NormalizedOrRaw(x, raws) == x = None \/ IsNumber(x) \/ (x.kind = "raw" /\ x.v \in raws)

\* the amounts of a table-path record are normalized cells of its row
TableRecordValues(record, row) ==
    \A f \in {"Entradas", "Salidas"} :
        f \in DOMAIN record =>
            NormalizedOrRaw(record[f], {row[c] : c \in 1..Len(row)})

BigEnough(tb) == Len(tb) >= 2 /\ \E i \in 1..Len(tb) : Len(tb[i]) >= 3

\* the rows the step at hand appended to the collected rows
Appended == SubSeq(all_table_rows', Len(all_table_rows) + 1, Len(all_table_rows'))

\* the header is fixed once, by the first table that is big enough and whose
\* header row passes the keyword check, and stays as it is
C12_HeaderFixedOnce ==
    /\ headers # NoHeaders => headers' = headers
    /\ (headers = NoHeaders /\ n_tables' = n_tables + 1) =>
          IF BigEnough(table') /\ is_transaction_table(Candidate(table'[1]))
          THEN headers' = Candidate(table'[1])
          ELSE headers' = NoHeaders

\* every collected row is as wide as the header and has a cell that is
\* neither None nor ''
C12_RowsWellFormed ==
    \A r \in 1..Len(all_table_rows') :
        /\ headers' # NoHeaders
        /\ Len(all_table_rows'[r]) = Len(headers')
        /\ \E c \in 1..Len(all_table_rows'[r]) :
              all_table_rows'[r][c] # Absent /\ all_table_rows'[r][c] # <<>>

\* no row taken from a table after the header-defining one starts with the
\* header's first cell: read as a header cell, its first cell is not the
\* header's first name
C12_NoRepeatedHeader ==
    headers # NoHeaders =>
        \A r \in 1..Len(Appended) : Candidate(Appended[r])[1] # headers[1]

\* C12: over any sequence of pages and tables the header is fixed at most
\* once, by the first qualifying table, and never changes; after every step
\* every collected row has as many cells as the header and a non-blank cell;
\* and no row collected from a later table repeats the header's first cell.
C12_RowCollectorInvariant ==
    [][endpoint = "upload-bank" =>
           /\ C12_HeaderFixedOnce
           /\ C12_RowsWellFormed
           /\ C12_NoRepeatedHeader]_vars

\* the parts of C12 that rest on lines 312-332 as they are
C12_HeaderAndWidth ==
    [][endpoint = "upload-bank" => (C12_HeaderFixedOnce /\ C12_RowsWellFormed)]_vars

\* a header whose first cell is None is met again in the next table and its
\* row is collected as a transaction
C12_RepeatedHeaderCollected ==
    /\ endpoint = "upload-bank"
    /\ pc = "pages"
    /\ n_tables = 2
    /\ table = TableNoCols
    /\ headers = Candidate(TableNoCols[1])
    /\ all_table_rows = <<TableNoCols[1]>>

----------------------------------------------------------------------------
(* Properties of the planilla extractor (under Spec)                       *)

\* the cell, surrounding whitespace aside, consists of decimal digits only
DigitsOnly(c) == c # Absent /\ IsDigit(Strip(c))

\* the first cells of the rows that stand for an employee: the first cell
\* is digits only, the table has 52 or 43 columns
EmployeeCells(tb) ==
    IF tb = <<>> \/ Len(tb[1]) \notin {52, 43} THEN <<>>
    ELSE SelectSeq([r \in 1..Len(tb) |-> IF tb[r] = <<>> THEN Absent ELSE tb[r][1]], DigitsOnly)

RECURSIVE AllEmployeeCells(_)
AllEmployeeCells(tbs) ==
    IF tbs = <<>> THEN <<>> ELSE EmployeeCells(Head(tbs)) \o AllEmployeeCells(Tail(tbs))

\* the tables the loop has been through
TablesSeen == SubSeq(pdf, 1, n_tables)

\* C8: extract_planilla_pila holds exactly one record for each row whose
\* first cell (trimmed) is digits only in a table of 52 or 43 columns, in
\* order and under that number, and none for anything else; every record,
\* of either layout, has the same fields, before and after the renaming.
C8_OneRecordPerEmployeeRow ==
    endpoint = "upload-planilla" =>
        /\ DOMAIN PLANILLA_COLS_52 = DOMAIN PLANILLA_COLS_43
        /\ Len(employee_rows) = Len(AllEmployeeCells(TablesSeen))
        /\ \A r \in 1..Len(employee_rows) :
              /\ employee_rows[r].No = Raw(Strip(AllEmployeeCells(TablesSeen)[r]))
              /\ DOMAIN employee_rows[r] = DOMAIN PLANILLA_COLS_52
        /\ (Returned /\ result # None) =>
              /\ Len(result.rows) = Len(AllEmployeeCells(pdf))
              /\ \A r \in 1..Len(result.rows) :
                    DOMAIN result.rows[r] = {Rename(f) : f \in DOMAIN PLANILLA_COLS_52}

C8_Witness ==
    /\ endpoint = "upload-planilla"
    /\ pc = "returned"
    /\ pdf = <<Planilla52, Planilla50, Planilla43>>
    /\ Len(result.rows) = 4

----------------------------------------------------------------------------
(* Properties of the invoice extractor (under Spec)                        *)

\* the anchor stands in some line of the document's text
AnchorFound(anchor) ==
    \E i \in 1..Len(InvoiceText(pdf.texts)) : Contains(InvoiceText(pdf.texts)[i], anchor)

\* the buyer's name anchor: the heading closing a line, the next line
\* starting with the name's label
BuyerNameFound ==
    \E i \in 1..(Len(InvoiceText(pdf.texts)) - 1) :
        /\ EndsWith(InvoiceText(pdf.texts)[i], BUYER_HEADING)
        /\ StartsWith(InvoiceText(pdf.texts)[i + 1], BUYER_NAME_ANCHOR)

\* both fields of a row of the Info sheet are there, or neither
AllOrNothing(row, found) ==
    IF found THEN row.Razon_Social # None /\ row.NIT # None
    ELSE row.Razon_Social = None /\ row.NIT = None

\* C9: a party of the invoice is reported all-or-nothing: both its fields
\* are filled when both its anchors are found in the text, both are absent
\* when either is not; the Info sheet has exactly the rows Vendedor and
\* Comprador, in that order.
C9_AllOrNothing ==
    (endpoint = "uploadfile" /\ Returned) =>
        /\ Len(result.Info) = 2
        /\ result.Info[1].Tipo = "Vendedor"
        /\ result.Info[2].Tipo = "Comprador"
        /\ AllOrNothing(result.Info[1],
                        AnchorFound(SELLER_NAME_ANCHOR) /\ AnchorFound(SELLER_NIT_ANCHOR))
        /\ AllOrNothing(result.Info[2], BuyerNameFound /\ AnchorFound(BUYER_NIT_ANCHOR))
        /\ pc = "responded" => response.Info = result.Info

C9_Witness ==
    /\ endpoint = "uploadfile"
    /\ pc = "responded"
    /\ pdf.texts = <<TextSellerName, TextBuyer>>
    /\ response.Info[1].Razon_Social = None
    /\ response.Info[1].NIT = None
    /\ response.Info[2].Razon_Social = Raw(<<"J", "u", "a", "n", " ", "R", "u", "i", "z">>)
    /\ response.Info[2].NIT = Raw(<<"1", "0", "3", "2">>)

----------------------------------------------------------------------------
(* Properties of the upload endpoints (under Spec)                         *)

\* the records the document at hand holds, and the sheet of the endpoint
RecordCount ==
    IF endpoint = "upload-bank" THEN BankRecordCount ELSE Len(AllEmployeeCells(pdf))

SheetName == IF endpoint = "upload-bank" THEN "Movimientos" ELSE "Empleados"

\* C10: for the bank statement and the planilla, the extractor returns None
\* exactly when the document holds no record, the endpoint answers 422
\* exactly then, and otherwise answers with one sheet holding the records.
C10_NoDataOutcome ==
    (pc = "responded" /\ endpoint \in {"upload-bank", "upload-planilla"}) =>
        /\ (result = None) <=> (RecordCount = 0)
        /\ (response.status = 422) <=> (RecordCount = 0)
        /\ RecordCount > 0 =>
              /\ response = [status |-> 200, sheet |-> SheetName, rows |-> result.rows]
              /\ Len(response.rows) = RecordCount

C10_Witness ==
    /\ pc = "responded"
    /\ endpoint = "upload-bank"
    /\ table = TableDecoy
    /\ all_text_parts = <<TextOther>>
    /\ result = None
    /\ response = [status |-> 422]

====
